---------------------------- MODULE Spec2Model ----------------------------
(***************************************************************************)
(* Events & Services API (src/main.py): request handlers over the three    *)
(* document collections "event", "service" and "booking".                  *)
(*                                                                         *)
(* Text that the handlers inspect character by character (titles, names,   *)
(* the q parameter, identifiers) is a sequence of one-character strings.   *)
(* An optional parameter is <<>> (None) or <<v>> (the value v).            *)
(* Documents carry the fields the handlers read (title, featured, name,    *)
(* category, item_type, item_id); the remaining payload fields are stored  *)
(* and returned untouched and are left out.                                *)
(*                                                                         *)
(* The handlers are coroutines without an await, so one event loop runs    *)
(* each request to completion: Spec, SpecRead and SpecBulk take a request  *)
(* as one step.  Several workers on one database overlap between storage   *)
(* calls: SpecSeed and SpecConc take one storage call as one step.         *)
(* The variable response keeps the answer to the request completed last,   *)
(* with the request itself (req) and the storage calls it made (calls).    *)
(***************************************************************************)
EXTENDS Integers, Sequences, FiniteSets, TLC

VARIABLES
    db,         \* the process-wide storage handle: "None" or "connected"
    store,      \* the documents of each collection, in insertion order
    nextId,     \* counter behind the storage-generated identifiers
    response,   \* the response of the last completed request
    pc,         \* position of each in-flight seed request
    local,      \* locals of each in-flight seed request (created, loop index)
    bk          \* in-flight create-booking requests past the existence check

vars == <<db, store, nextId, response, pc, local, bk>>

-----------------------------------------------------------------------------
(* Bounds of the model *)

MaxEvents == 1        \* create-event is offered while fewer events are stored
MaxServices == 1      \* create-service is offered while fewer services are stored
MaxBookings == 1      \* create-booking inserts while fewer bookings are stored
MaxOther == 9         \* collections of other applications in the same database
BulkExtra == 2        \* events created beyond the default limit in SpecBulk

(* Program constants *)

DefaultLimit == 50    \* list_events / list_services: limit: int = 50
MaxCollections == 10  \* test_database: collections[:10]
ObjectIdHexLen == 24  \* bson.ObjectId: 12 bytes as 24 hexadecimal characters

None == <<>>
Some(v) == <<v>>

-----------------------------------------------------------------------------
(* Characters *)

UpperChars == <<"A","B","C","D","E","F","G","H","I","J","K","L","M",
                "N","O","P","Q","R","S","T","U","V","W","X","Y","Z">>
LowerChars == <<"a","b","c","d","e","f","g","h","i","j","k","l","m",
                "n","o","p","q","r","s","t","u","v","w","x","y","z">>

LowerOf == [c \in {UpperChars[i] : i \in 1..26} |->
                LowerChars[CHOOSE i \in 1..26 : UpperChars[i] = c]]
UpperOf == [c \in {LowerChars[i] : i \in 1..26} |->
                UpperChars[CHOOSE i \in 1..26 : LowerChars[i] = c]]

(* str.lower() / str.upper() on one character *)
Lower(c) == IF c \in DOMAIN LowerOf THEN LowerOf[c] ELSE c

Upper(c) == IF c \in DOMAIN UpperOf THEN UpperOf[c] ELSE c

UpperStr(s) == [i \in 1..Len(s) |-> Upper(s[i])]

HexDigits == <<"0","1","2","3","4","5","6","7","8","9","a","b","c","d","e","f">>

HexValOf == [c \in {HexDigits[i] : i \in 1..16} |->
                (CHOOSE i \in 1..16 : HexDigits[i] = c) - 1]

IsHexChar(c) == Lower(c) \in DOMAIN HexValOf

HexVal(c) == HexValOf[Lower(c)]

-----------------------------------------------------------------------------
(* bson.ObjectId: 12 bytes; ObjectId(s) parses 24 hexadecimal characters of *)
(* either case, str(oid) prints them in lower case.                        *)

ObjectIdValid(s) ==
    /\ Len(s) = ObjectIdHexLen
    /\ \A i \in 1..Len(s) : IsHexChar(s[i])

ObjectId(s) == [k \in 1..12 |-> 16 * HexVal(s[2*k - 1]) + HexVal(s[2*k])]

ObjectIdStr(oid) ==
    [i \in 1..ObjectIdHexLen |->
        IF i % 2 = 1 THEN HexDigits[(oid[(i + 1) \div 2] \div 16) + 1]
                     ELSE HexDigits[(oid[i \div 2] % 16) + 1]]

(* The identifier the storage engine generates for the n-th insert. *)
NewObjectId(n) ==
    [k \in 1..12 |-> IF k = 12 THEN n % 256
                     ELSE IF k = 11 THEN (n \div 256) % 256 ELSE 0]


-----------------------------------------------------------------------------
(* Sample records of the seed endpoint *)

SampleEvents ==
    << [title |-> <<"S","u","m","m","e","r"," ","M","u","s","i","c"," ","F","e","s","t">>,
        featured |-> TRUE],
       [title |-> <<"T","e","c","h"," ","T","a","l","k","s"," ","N","i","g","h","t">>,
        featured |-> TRUE],
       [title |-> <<"A","r","t"," ","&"," ","W","i","n","e"," ","E","v","e","n","i","n","g">>,
        featured |-> FALSE],
       [title |-> <<"C","o","m","m","u","n","i","t","y"," ","Y","o","g","a">>,
        featured |-> FALSE] >>

SampleServices ==
    << [name |-> <<"E","v","e","n","t"," ","P","h","o","t","o","g","r","a","p","h","y">>,
        category |-> "Media"],
       [name |-> <<"C","a","t","e","r","i","n","g"," ","E","s","s","e","n","t","i","a","l","s">>,
        category |-> "Food"],
       [name |-> <<"D","J"," ","&"," ","S","o","u","n","d">>,
        category |-> "Entertainment"] >>

-----------------------------------------------------------------------------
(* Storage gateway (database.py) and the storage engine behind it *)

Min(a, b) == IF a < b THEN a ELSE b

Take(s, n) == SubSeq(s, 1, Min(n, Len(s)))

(* The $regex operator with option "i": pattern found anywhere in the text, *)
(* "." standing for any character, every other character for itself,      *)
(* letters compared without regard to case.                                *)
RegexMatchAt(pattern, text, at) ==
    /\ at + Len(pattern) - 1 <= Len(text)
    /\ \A k \in 1..Len(pattern) :
          \/ pattern[k] = "."
          \/ Lower(pattern[k]) = Lower(text[at + k - 1])

RegexSearch(pattern, text) ==
    \E at \in 1..(Len(text) + 1) : RegexMatchAt(pattern, text, at)

(* One criterion of a filter document against a field value. *)
Criterion(value, crit) ==
    IF crit.op = "regex" THEN RegexSearch(crit.val, value)
    ELSE value = crit.val

(* A document matches a filter when every field the filter names does. *)
Matches(doc, filt) ==
    \A f \in DOMAIN filt : Criterion(doc[f], filt[f])

RECURSIVE SelectDocs(_, _, _)
SelectDocs(docs, filt, i) ==
    IF i > Len(docs) THEN <<>>
    ELSE IF Matches(docs[i], filt)
         THEN <<docs[i]>> \o SelectDocs(docs, filt, i + 1)
         ELSE SelectDocs(docs, filt, i + 1)

(* get_documents(collection_name, filter, limit): up to limit matching     *)
(* documents, in the storage engine's natural (insertion) order.           *)
get_documents(st, collection_name, filt, limit) ==
    Take(SelectDocs(st[collection_name], filt, 1), limit)

(* insert_one: the record is stored under a newly generated identifier. *)
insert_one(st, collection_name, data, n) ==
    [st EXCEPT ![collection_name] = Append(@, data @@ ("_id" :> NewObjectId(n)))]

(* create_document(collection_name, data): inserts, returns str(identifier). *)
create_document(st, collection_name, data, n) ==
    insert_one(st, collection_name, data, n)

created_id(n) == ObjectIdStr(NewObjectId(n))

(* count_documents({}) *)
count_documents(st, collection_name) == Len(st[collection_name])

(* Slip: the lookup runs over the event and the service collection alike. *)
find_one_AnyCollection(st, collection_name, oid) ==
    LET hits == SelectDocs(st.event \o st.service,
                           ("_id" :> [op |-> "eq", val |-> oid]), 1)
    IN  IF hits = <<>> THEN None ELSE Some(hits[1])

(* find_one({"_id": oid}); None when nothing matches. *)
find_one(st, collection_name, oid) ==
    LET hits == SelectDocs(st[collection_name], ("_id" :> [op |-> "eq", val |-> oid]), 1)
    IN  IF hits = <<>> THEN None ELSE Some(hits[1])

(* list_collection_names(): a collection exists once it holds a document;  *)
(* the database may hold k collections of other applications.              *)
list_collection_names(st, k) ==
    SelectSeq(<<"event", "service", "booking">>, LAMBDA c : Len(st[c]) > 0)
        \o [i \in 1..k |-> "other" \o ToString(i)]

-----------------------------------------------------------------------------
(* Schema validators (schemas.py) *)

ValidEvent(event) == Len(event.title) > 0

ValidService(service) == Len(service.name) > 0

-----------------------------------------------------------------------------
(* Responses *)

NoCreated == [events |-> 0, services |-> 0]

Resp(op, status, detail, id, created, body, req, calls) ==
    [op |-> op, status |-> status, detail |-> detail, id |-> id,
     created |-> created, body |-> body, req |-> req, calls |-> calls]

(* HTTPException(status_code, detail), or an exception FastAPI turns into 500 *)
Error(op, status, detail, req, calls) ==
    Resp(op, status, detail, <<>>, NoCreated, <<>>, req, calls)

(* Slip: the identifier is printed in upper case. *)
serialize_doc_Upper(doc) ==
    [f \in (DOMAIN doc \ {"_id"}) \cup {"id"} |->
        IF f = "id" THEN UpperStr(ObjectIdStr(doc["_id"])) ELSE doc[f]]

(* serialize_doc: "_id" is removed and "id" = str(_id) added. *)
serialize_doc(doc) ==
    [f \in (DOMAIN doc \ {"_id"}) \cup {"id"} |->
        IF f = "id" THEN ObjectIdStr(doc["_id"]) ELSE doc[f]]

SerializeAll(docs) == [i \in 1..Len(docs) |-> serialize_doc(docs[i])]

-----------------------------------------------------------------------------
(* Inputs *)

FirstId == 10         \* the counter value behind the first generated identifier

Seeders == {"s1", "s2"}
Bookers == {"b1"}

TechTalk == <<"T","e","c","h"," ","T","a","l","k">>
Gala == <<"G","a","l","a">>

EventInputs ==
    { [title |-> TechTalk, featured |-> FALSE],
      [title |-> Gala, featured |-> TRUE],
      [title |-> <<>>, featured |-> FALSE] }

ServiceInputs ==
    { [name |-> <<"D","J"," ","&"," ","S","o","u","n","d">>, category |-> "Entertainment"],
      [name |-> <<>>, category |-> "Food"] }

QInputs == { None, Some(<<>>), Some(<<"t","e","c","h">>), Some(<<".">>) }
FeaturedInputs == { None, Some(TRUE), Some(FALSE) }
LimitInputs == { 1, DefaultLimit }
ListEventsInputs ==
    { r \in [q : QInputs, featured : FeaturedInputs, limit : LimitInputs] :
        r.limit = DefaultLimit \/ r.featured = None }
ListServicesInputs ==
    [q : { None, Some(<<"d","j">>) }, category : { None, Some(""), Some("Entertainment") },
     limit : { DefaultLimit }]

(* Identifier strings a client may send: the printed form of the first and *)
(* the latest identifier generated and of the next one to be generated,    *)
(* the first in upper case, and strings that are no identifier.            *)
NoIdentifier ==
    { Take(created_id(FirstId), ObjectIdHexLen - 1), [i \in 1..ObjectIdHexLen |-> "g"] }

ItemIdInputs ==
    { created_id(n) : n \in {FirstId, nextId - 1, nextId} }
        \cup { UpperStr(created_id(FirstId)) } \cup NoIdentifier

BookingInputs ==
    [item_type : {"event", "service"}, item_id : ItemIdInputs]
        \cup [item_type : {"Event"}, item_id : {created_id(FirstId)} \cup NoIdentifier]

-----------------------------------------------------------------------------
(* Initial state: the handle is set once at import; the collections are    *)
(* empty; no request is in flight.                                         *)

Init ==
    /\ db \in {"None", "connected"}
    /\ store = [event |-> <<>>, service |-> <<>>, booking |-> <<>>]
    /\ nextId = FirstId
    /\ response = Error("none", 0, "", <<>>, <<>>)
    /\ pc = [p \in Seeders |-> "idle"]
    /\ local = [p \in Seeders |-> [created |-> NoCreated, i |-> 1]]
    /\ bk = [p \in Bookers |-> None]

InFlight == <<pc, local, bk>>

-----------------------------------------------------------------------------
(* GET /test *)

(* Slip: the list of names is not cut. *)
FirstCollections_All(collections) == collections

(* collections[:10] *)
FirstCollections(collections) == Take(collections, MaxCollections)

test_database(k, fails) ==
    LET collections == list_collection_names(store, k)
        body ==
            IF db # "None"
            THEN IF ~fails
                 THEN [database |-> "Connected & Working",
                       connection_status |-> "Connected",
                       collections |-> FirstCollections(collections)]
                 ELSE [database |-> "Connected but Error",
                       connection_status |-> "Connected",
                       collections |-> <<>>]
            ELSE [database |-> "Available but not initialized",
                  connection_status |-> "Not Connected",
                  collections |-> <<>>]
    IN  /\ response' = Resp("test", 200, "", <<>>, NoCreated, body,
                            [k |-> k, fails |-> fails],
                            IF db # "None" THEN <<"list_collection_names">> ELSE <<>>)
        /\ UNCHANGED <<db, store, nextId, InFlight>>

-----------------------------------------------------------------------------
(* POST /api/seed, run without interruption *)

(* Slip: the emptiness check is left out. *)
ShouldSeed_Always(st, collection_name) == TRUE

(* Slip: a collection short of its samples is topped up. *)
ShouldSeed_TopUp(st, collection_name) ==
    count_documents(st, collection_name) < Len(SampleServices)

(* "Only seed if empty": count_documents({}) == 0 *)
ShouldSeed(st, collection_name) == count_documents(st, collection_name) = 0

(* for ev in samples: create_document(name, ev) *)
RECURSIVE InsertSamples(_, _, _, _, _)
InsertSamples(st, collection_name, samples, i, n) ==
    IF i > Len(samples) THEN st
    ELSE InsertSamples(create_document(st, collection_name, samples[i], n),
                       collection_name, samples, i + 1, n + 1)

InsertCalls(n) == [i \in 1..n |-> "insert_one"]

(* Slip: a missing storage handle is passed over in silence. *)
seed_sample_data_Silent ==
    /\ response' = Resp("seed", 200, "ok", <<>>, NoCreated, <<>>, <<>>, <<>>)
    /\ UNCHANGED <<db, store, nextId, InFlight>>

seed_sample_data ==
    IF db = "None"
    THEN /\ response' = Error("seed", 500, "Database not available", <<>>, <<>>)
         /\ UNCHANGED <<db, store, nextId, InFlight>>
    ELSE LET ev == ShouldSeed(store, "event")
             nEv == IF ev THEN Len(SampleEvents) ELSE 0
             st1 == IF ev THEN InsertSamples(store, "event", SampleEvents, 1, nextId)
                          ELSE store
             sv == ShouldSeed(st1, "service")
             nSv == IF sv THEN Len(SampleServices) ELSE 0
             st2 == IF sv THEN InsertSamples(st1, "service", SampleServices, 1, nextId + nEv)
                          ELSE st1
         IN  /\ store' = st2
             /\ nextId' = nextId + nEv + nSv
             /\ response' = Resp("seed", 200, "ok", <<>>,
                                 [events |-> nEv, services |-> nSv], <<>>, <<>>,
                                 <<"count_documents">> \o InsertCalls(nEv)
                                   \o <<"count_documents">> \o InsertCalls(nSv))
             /\ UNCHANGED <<db, InFlight>>

-----------------------------------------------------------------------------
(* POST /api/events, GET /api/events *)

create_event(event) ==
    /\ IF ~ValidEvent(event)
       THEN /\ response' = Error("create_event", 422, "validation error", event, <<>>)
            /\ UNCHANGED <<store, nextId>>
       ELSE IF db = "None"
       THEN /\ response' = Error("create_event", 500, "Internal Server Error", event, <<>>)
            /\ UNCHANGED <<store, nextId>>
       ELSE /\ store' = create_document(store, "event", event, nextId)
            /\ nextId' = nextId + 1
            /\ response' = Resp("create_event", 200, "", created_id(nextId), NoCreated,
                                <<>>, event, <<"insert_one">>)
    /\ UNCHANGED <<db, InFlight>>

(* filt = {}; if q: filt["title"] = {"$regex": q, "$options": "i"};        *)
(* if featured is not None: filt["featured"] = featured                    *)
EventFilter(q, featured) ==
    (IF q # None /\ Len(q[1]) > 0
     THEN ("title" :> [op |-> "regex", val |-> q[1]]) ELSE <<>>)
    @@ (IF featured # None
        THEN ("featured" :> [op |-> "eq", val |-> featured[1]]) ELSE <<>>)

list_events(q, featured, limit) ==
    LET req == [q |-> q, featured |-> featured, limit |-> limit]
    IN  /\ IF db = "None"
           THEN response' = Error("list_events", 500, "Internal Server Error", req, <<>>)
           ELSE response' =
                  Resp("list_events", 200, "", <<>>, NoCreated,
                       SerializeAll(get_documents(store, "event",
                                                  EventFilter(q, featured), limit)),
                       req, <<"find">>)
        /\ UNCHANGED <<db, store, nextId, InFlight>>

-----------------------------------------------------------------------------
(* POST /api/services, GET /api/services *)

create_service(service) ==
    /\ IF ~ValidService(service)
       THEN /\ response' = Error("create_service", 422, "validation error", service, <<>>)
            /\ UNCHANGED <<store, nextId>>
       ELSE IF db = "None"
       THEN /\ response' = Error("create_service", 500, "Internal Server Error", service, <<>>)
            /\ UNCHANGED <<store, nextId>>
       ELSE /\ store' = create_document(store, "service", service, nextId)
            /\ nextId' = nextId + 1
            /\ response' = Resp("create_service", 200, "", created_id(nextId), NoCreated,
                                <<>>, service, <<"insert_one">>)
    /\ UNCHANGED <<db, InFlight>>

(* if q: filt["name"] = {...}; if category: filt["category"] = category *)
ServiceFilter(q, category) ==
    (IF q # None /\ Len(q[1]) > 0
     THEN ("name" :> [op |-> "regex", val |-> q[1]]) ELSE <<>>)
    @@ (IF category # None /\ category[1] # ""
        THEN ("category" :> [op |-> "eq", val |-> category[1]]) ELSE <<>>)

list_services(q, category, limit) ==
    LET req == [q |-> q, category |-> category, limit |-> limit]
    IN  /\ IF db = "None"
           THEN response' = Error("list_services", 500, "Internal Server Error", req, <<>>)
           ELSE response' =
                  Resp("list_services", 200, "", <<>>, NoCreated,
                       SerializeAll(get_documents(store, "service",
                                                  ServiceFilter(q, category), limit)),
                       req, <<"find">>)
        /\ UNCHANGED <<db, store, nextId, InFlight>>

-----------------------------------------------------------------------------
(* POST /api/bookings, run without interruption *)

(* booking.item_type not in ["event", "service"] *)
ItemTypeOk(item_type) == item_type \in {"event", "service"}

(* f"{booking.item_type.capitalize()} not found" *)
NotFoundDetail(item_type) ==
    IF item_type = "event" THEN "Event not found" ELSE "Service not found"

(* Slip: the identifier is parsed before item_type is looked at. *)
BookingRejection_ParseFirst(st, booking) ==
    IF ~ObjectIdValid(booking.item_id)
    THEN Some(Error("create_booking", 400, "Invalid item_id", booking, <<>>))
    ELSE IF ~ItemTypeOk(booking.item_type)
    THEN Some(Error("create_booking", 400, "item_type must be 'event' or 'service'",
                    booking, <<>>))
    ELSE IF db = "None"
    THEN Some(Error("create_booking", 500, "Internal Server Error", booking, <<>>))
    ELSE IF find_one(st, booking.item_type, ObjectId(booking.item_id)) = None
    THEN Some(Error("create_booking", 404, NotFoundDetail(booking.item_type),
                    booking, <<"find_one">>))
    ELSE None

(* Slip: the referenced document is not looked up. *)
BookingRejection_NoLookup(st, booking) ==
    IF ~ItemTypeOk(booking.item_type)
    THEN Some(Error("create_booking", 400, "item_type must be 'event' or 'service'",
                    booking, <<>>))
    ELSE IF ~ObjectIdValid(booking.item_id)
    THEN Some(Error("create_booking", 400, "Invalid item_id", booking, <<>>))
    ELSE IF db = "None"
    THEN Some(Error("create_booking", 500, "Internal Server Error", booking, <<>>))
    ELSE None

(* The response create_booking raises before the insert, or None. *)
BookingRejection(st, booking) ==
    IF ~ItemTypeOk(booking.item_type)
    THEN Some(Error("create_booking", 400, "item_type must be 'event' or 'service'",
                    booking, <<>>))
    ELSE IF ~ObjectIdValid(booking.item_id)
    THEN Some(Error("create_booking", 400, "Invalid item_id", booking, <<>>))
    ELSE IF db = "None"
    THEN Some(Error("create_booking", 500, "Internal Server Error", booking, <<>>))
    ELSE IF find_one(st, booking.item_type, ObjectId(booking.item_id)) = None
    THEN Some(Error("create_booking", 404, NotFoundDetail(booking.item_type),
                    booking, <<"find_one">>))
    ELSE None

create_booking(booking) ==
    LET rejection == BookingRejection(store, booking)
    IN  /\ IF rejection # None
           THEN /\ response' = rejection[1]
                /\ UNCHANGED <<store, nextId>>
           ELSE /\ store' = create_document(store, "booking", booking, nextId)
                /\ nextId' = nextId + 1
                /\ response' = Resp("create_booking", 200, "", created_id(nextId),
                                    NoCreated, <<>>, booking,
                                    <<"find_one", "insert_one">>)
        /\ UNCHANGED <<db, InFlight>>

-----------------------------------------------------------------------------
(* Requests handled one at a time *)

Diagnose == \E k \in {0, MaxOther}, fails \in BOOLEAN : test_database(k, fails)
Seed == seed_sample_data
CreateEvent ==
    /\ Len(store.event) < MaxEvents
    /\ \E event \in EventInputs : create_event(event)
ListEvents == \E r \in ListEventsInputs : list_events(r.q, r.featured, r.limit)
CreateService ==
    /\ Len(store.service) < MaxServices
    /\ \E service \in ServiceInputs : create_service(service)
ListServices == \E r \in ListServicesInputs : list_services(r.q, r.category, r.limit)
CreateBooking ==
    /\ Len(store.booking) < MaxBookings
    /\ \E booking \in BookingInputs : create_booking(booking)

(* The requests that write. *)
Next ==
    \/ Seed
    \/ CreateEvent
    \/ CreateService
    \/ CreateBooking

Spec == Init /\ [][Next]_vars

(* The requests that read, over the collections that seeding and the       *)
(* create requests build.                                                  *)
NextRead ==
    \/ Seed
    \/ CreateEvent
    \/ CreateService
    \/ ListEvents
    \/ ListServices
    \/ Diagnose

SpecRead == Init /\ [][NextRead]_vars

-----------------------------------------------------------------------------
(* A long run of create-event requests, then unfiltered listings: the      *)
(* collection grows past the default limit of list_events.                 *)

BulkEventInputs ==
    IF Len(store.event) < DefaultLimit - 1
    THEN { [title |-> Gala, featured |-> TRUE] }
    ELSE EventInputs

CreateEventBulk ==
    /\ Len(store.event) < DefaultLimit + BulkExtra
    /\ \E event \in BulkEventInputs : create_event(event)

ListEventsDefault == list_events(None, None, DefaultLimit)

NextBulk ==
    \/ CreateEventBulk
    \/ ListEventsDefault

SpecBulk == Init /\ [][NextBulk]_vars

-----------------------------------------------------------------------------
(* POST /api/seed, one storage call per step: requests served by several   *)
(* workers overlap between any two storage calls.                          *)

(* Slip: the events are inserted whatever the count. *)
seed_count_events_Unchecked(p) ==
    /\ pc[p] = "idle"
    /\ db # "None"
    /\ pc' = [pc EXCEPT ![p] = "insert_events"]
    /\ local' = [local EXCEPT ![p] = [created |-> NoCreated, i |-> 1]]
    /\ UNCHANGED <<db, store, nextId, bk, response>>

(* if db is None: raise; created = {...}; if db["event"].count_documents({}) == 0 *)
seed_count_events(p) ==
    /\ pc[p] = "idle"
    /\ IF db = "None"
       THEN /\ response' = Error("seed", 500, "Database not available", <<>>, <<>>)
            /\ UNCHANGED <<pc, local>>
       ELSE /\ pc' = [pc EXCEPT ![p] = IF ShouldSeed(store, "event")
                                       THEN "insert_events" ELSE "count_services"]
            /\ local' = [local EXCEPT ![p] = [created |-> NoCreated, i |-> 1]]
            /\ UNCHANGED response
    /\ UNCHANGED <<db, store, nextId, bk>>

(* create_document("event", ev); created["events"] += 1 *)
seed_insert_event(p) ==
    /\ pc[p] = "insert_events"
    /\ store' = create_document(store, "event", SampleEvents[local[p].i], nextId)
    /\ nextId' = nextId + 1
    /\ local' = [local EXCEPT ![p].created.events = @ + 1, ![p].i = @ + 1]
    /\ pc' = [pc EXCEPT ![p] = IF local[p].i = Len(SampleEvents)
                                THEN "count_services" ELSE "insert_events"]
    /\ UNCHANGED <<db, response, bk>>

SeedReturn(p, created) ==
    /\ response' = Resp("seed", 200, "ok", <<>>, created, <<>>, <<>>, <<>>)
    /\ pc' = [pc EXCEPT ![p] = "idle"]

(* if db["service"].count_documents({}) == 0 *)
seed_count_services(p) ==
    /\ pc[p] = "count_services"
    /\ IF ShouldSeed(store, "service")
       THEN /\ pc' = [pc EXCEPT ![p] = "insert_services"]
            /\ local' = [local EXCEPT ![p].i = 1]
            /\ UNCHANGED response
       ELSE /\ SeedReturn(p, local[p].created)
            /\ UNCHANGED local
    /\ UNCHANGED <<db, store, nextId, bk>>

(* create_document("service", sv); created["services"] += 1; return *)
seed_insert_service(p) ==
    /\ pc[p] = "insert_services"
    /\ store' = create_document(store, "service", SampleServices[local[p].i], nextId)
    /\ nextId' = nextId + 1
    /\ local' = [local EXCEPT ![p].created.services = @ + 1, ![p].i = @ + 1]
    /\ IF local[p].i = Len(SampleServices)
       THEN SeedReturn(p, [local[p].created EXCEPT !.services = @ + 1])
       ELSE UNCHANGED <<pc, response>>
    /\ UNCHANGED <<db, bk>>

SeedCountEvents == \E p \in Seeders : seed_count_events(p)
SeedInsertEvent == \E p \in Seeders : seed_insert_event(p)
SeedCountServices == \E p \in Seeders : seed_count_services(p)
SeedInsertService == \E p \in Seeders : seed_insert_service(p)

NextSeed ==
    \/ SeedCountEvents
    \/ SeedInsertEvent
    \/ SeedCountServices
    \/ SeedInsertService

SpecSeed == Init /\ [][NextSeed]_vars

-----------------------------------------------------------------------------
(* POST /api/bookings, one storage call per step, among seed and create    *)
(* requests of other workers.                                              *)

(* the checks up to coll.find_one({"_id": _id}) *)
booking_check(p, booking) ==
    /\ bk[p] = None
    /\ LET rejection == BookingRejection(store, booking)
       IN  IF rejection # None
           THEN /\ response' = rejection[1]
                /\ UNCHANGED bk
           ELSE /\ bk' = [bk EXCEPT ![p] = Some(booking)]
                /\ UNCHANGED response
    /\ UNCHANGED <<db, store, nextId, pc, local>>

(* booking_id = create_document("booking", booking); return {"id": booking_id} *)
booking_insert(p) ==
    /\ bk[p] # None
    /\ store' = create_document(store, "booking", bk[p][1], nextId)
    /\ nextId' = nextId + 1
    /\ response' = Resp("create_booking", 200, "", created_id(nextId), NoCreated,
                        <<>>, bk[p][1], <<"find_one", "insert_one">>)
    /\ bk' = [bk EXCEPT ![p] = None]
    /\ UNCHANGED <<db, pc, local>>

ConcBookingInputs ==
    [item_type : {"event", "service"},
     item_id : { created_id(nextId - 1), created_id(nextId),
                 UpperStr(created_id(FirstId)) }]

BookingCheck ==
    /\ Len(store.booking) < MaxBookings
    /\ \E p \in Bookers, booking \in ConcBookingInputs : booking_check(p, booking)
BookingInsert == \E p \in Bookers : booking_insert(p)

SeedStep(p) ==
    \/ seed_count_events(p)
    \/ seed_insert_event(p)
    \/ seed_count_services(p)
    \/ seed_insert_service(p)

OneSeeder == SeedStep("s1")

ConcCreateEvent ==
    /\ Len(store.event) < MaxEvents
    /\ create_event([title |-> TechTalk, featured |-> FALSE])

ConcCreateService ==
    /\ Len(store.service) < MaxServices
    /\ create_service([name |-> <<"D","J">>, category |-> "Entertainment"])

NextConc ==
    \/ OneSeeder
    \/ ConcCreateEvent
    \/ ConcCreateService
    \/ BookingCheck
    \/ BookingInsert

SpecConc == Init /\ [][NextConc]_vars

-----------------------------------------------------------------------------
(* Vocabulary of the properties *)

(* The identifiers of the documents a collection holds. *)
IdsIn(docs) == { docs[i]["_id"] : i \in 1..Len(docs) }

(* text contains part, letters compared without regard to case *)
ContainsIgnoreCase(text, part) ==
    \E at \in 1..(Len(text) - Len(part) + 1) :
        \A k \in 1..Len(part) : Lower(text[at + k - 1]) = Lower(part[k])

(* The documents of docs[i..] that satisfy the filters a list-events       *)
(* request supplies.                                                       *)
RECURSIVE EventsWanted(_, _, _, _)
EventsWanted(docs, q, featured, i) ==
    IF i > Len(docs) THEN <<>>
    ELSE IF /\ (q # None => ContainsIgnoreCase(docs[i].title, q[1]))
            /\ (featured # None => docs[i].featured = featured[1])
         THEN <<docs[i]>> \o EventsWanted(docs, q, featured, i + 1)
         ELSE EventsWanted(docs, q, featured, i + 1)

(* The payload a stored document was created from. *)
Payload(doc) == [f \in DOMAIN doc \ {"_id"} |-> doc[f]]

(* The last n documents of a collection, as payloads. *)
LastPayloads(docs, n) == [i \in 1..n |-> Payload(docs[Len(docs) - n + i])]

BookingPayloadRejected(booking) ==
    \/ booking.item_type \notin {"event", "service"}
    \/ ~ObjectIdValid(booking.item_id)

-----------------------------------------------------------------------------
(* C1: with storage available, a create-booking request whose item_type is *)
(* "event" or "service" and whose item_id parses as an identifier that no  *)
(* document of the collection named by item_type carries is answered 404,  *)
(* naming the item type, and the booking collection stays as it was; a     *)
(* document with that identifier in the other collection does not count.   *)
C1_UnknownItemIsNotFound ==
    [][\A booking \in BookingInputs :
          ( /\ db = "connected"
            /\ booking.item_type \in {"event", "service"}
            /\ ObjectIdValid(booking.item_id)
            /\ ObjectId(booking.item_id) \notin IdsIn(store[booking.item_type])
            /\ create_booking(booking) )
          => /\ response'.status = 404
             /\ response'.detail = (IF booking.item_type = "event"
                                    THEN "Event not found" ELSE "Service not found")
             /\ store'.booking = store.booking]_vars

(* A 404 for an identifier that a document of the other collection carries. *)
C1_Witness ==
    /\ response.op = "create_booking"
    /\ response.status = 404
    /\ response.req.item_type = "service"
    /\ ObjectId(response.req.item_id) \in IdsIn(store.event)

(* C2: a create-booking request whose item_type is not exactly "event" or  *)
(* "service", or whose item_id does not parse as an identifier, is         *)
(* answered 400 and no collection changes; item_type is checked before     *)
(* item_id is parsed, and no storage call is made before either check.     *)
C2_BadPayloadIsClientError ==
    [][\A booking \in BookingInputs :
          (BookingPayloadRejected(booking) /\ create_booking(booking))
          => /\ response'.status = 400
             /\ store' = store
             /\ response'.calls = <<>>
             /\ response'.detail =
                  (IF booking.item_type \notin {"event", "service"}
                   THEN "item_type must be 'event' or 'service'"
                   ELSE "Invalid item_id")]_vars

(* A 400 for a request with both a wrong item_type and a malformed item_id, *)
(* sent while documents exist.                                             *)
C2_Witness ==
    /\ response.op = "create_booking"
    /\ response.status = 400
    /\ response.req.item_type = "Event"
    /\ ~ObjectIdValid(response.req.item_id)
    /\ Len(store.event) > 0

(* C3: a seed request that follows a successful seed request, with no     *)
(* other request in between, inserts nothing: it reports created.events =  *)
(* 0 and created.services = 0 and leaves both collections as they were.    *)
C3_SecondSeedInsertsNothing ==
    [][( /\ response.op = "seed"
         /\ response.status = 200
         /\ seed_sample_data )
       => /\ response'.status = 200
          /\ response'.created = [events |-> 0, services |-> 0]
          /\ store' = store]_vars

(* A seed that reported nothing created, after a seed that filled both     *)
(* collections with the samples.                                           *)
C3_Witness ==
    /\ response.op = "seed"
    /\ response.status = 200
    /\ response.created = [events |-> 0, services |-> 0]
    /\ LastPayloads(store.event, Len(store.event)) = SampleEvents
    /\ LastPayloads(store.service, Len(store.service)) = SampleServices

(* C4: a seed request decides for each collection on its own: an empty     *)
(* collection receives the whole sample list (4 events, 3 services), in    *)
(* order; a collection holding a document receives nothing; and the        *)
(* reported counts are the numbers of documents the request inserted.      *)
C4_SeedPerCollection ==
    [][(db = "connected" /\ seed_sample_data)
       => /\ store'.event =
               (IF Len(store.event) = 0 THEN store'.event ELSE store.event)
          /\ Len(store.event) = 0
               => /\ Len(store'.event) = 4
                  /\ LastPayloads(store'.event, 4) = SampleEvents
          /\ store'.service =
               (IF Len(store.service) = 0 THEN store'.service ELSE store.service)
          /\ Len(store.service) = 0
               => /\ Len(store'.service) = 3
                  /\ LastPayloads(store'.service, 3) = SampleServices
          /\ store'.booking = store.booking
          /\ response'.created.events = Len(store'.event) - Len(store.event)
          /\ response'.created.services = Len(store'.service) - Len(store.service)]_vars

(* A seed that found a client's event and no service: it left the events   *)
(* alone and inserted the three sample services.                           *)
C4_Witness ==
    /\ response.op = "seed"
    /\ response.created = [events |-> 0, services |-> 3]
    /\ Len(store.event) = 1
    /\ Len(store.service) = 3

(* C8 as claimed: with the storage handle unavailable, every seed and      *)
(* every create-booking request ends in a 500 error.                       *)
C8_AlwaysServerError ==
    (db = "None" /\ response.op \in {"seed", "create_booking"})
        => response.status = 500

(* C8: with the storage handle unavailable, seed ends in a 500 error, and  *)
(* create-booking ends in a 500 error when the payload passes the          *)
(* item_type and item_id checks and in a 400 error when it does not; no    *)
(* document is inserted.                                                   *)
C8_UnavailableStorage ==
    db = "None"
        => /\ store = [event |-> <<>>, service |-> <<>>, booking |-> <<>>]
           /\ response.op = "seed" => response.status = 500
           /\ response.op = "create_booking"
                => response.status = (IF BookingPayloadRejected(response.req)
                                      THEN 400 ELSE 500)

(* A well-formed booking request answered 500 for want of storage. *)
C8_Witness ==
    /\ db = "None"
    /\ response.op = "create_booking"
    /\ response.status = 500
    /\ ~BookingPayloadRejected(response.req)

(* The record of an unfiltered listing that answers the create-event       *)
(* response r: it carries the returned identifier, which is not empty, the *)
(* fields of the payload, and an identifier no other record carries.       *)
ListsCreated(body, r) ==
    \E i \in 1..Len(body) :
        /\ body[i].id = r.id
        /\ Len(r.id) > 0
        /\ body[i].title = r.req.title
        /\ body[i].featured = r.req.featured
        /\ \A j \in 1..Len(body) : j # i => body[j].id # body[i].id

(* C5 as claimed: whatever the event collection held before, the           *)
(* unfiltered list-events (limit 50) that follows a successful             *)
(* create-event contains the created record.                               *)
C5_CreatedIsListed ==
    [][( /\ response.op = "create_event"
         /\ response.status = 200
         /\ list_events(None, None, DefaultLimit) )
       => ListsCreated(response'.body, response)]_vars

(* C5: when the event collection held fewer than 50 documents before, the  *)
(* unfiltered list-events (limit 50) that follows a successful             *)
(* create-event contains a record with the fields of the payload and the   *)
(* returned, non-empty identifier, which no other record carries.          *)
C5_CreatedIsListedWithinLimit ==
    [][( /\ response.op = "create_event"
         /\ response.status = 200
         /\ Len(store.event) <= DefaultLimit
         /\ list_events(None, None, DefaultLimit) )
       => ListsCreated(response'.body, response)]_vars

(* A full listing of 50 records whose last one is the event just created. *)
C5_Witness ==
    /\ response.op = "list_events"
    /\ response.status = 200
    /\ Len(response.body) = DefaultLimit
    /\ Len(store.event) = DefaultLimit
    /\ response.body[DefaultLimit].id = ObjectIdStr(store.event[DefaultLimit]["_id"])
    /\ response.body[DefaultLimit].title = TechTalk

(* C6: list-events returns, up to limit, exactly the events that satisfy   *)
(* every filter supplied: the title contains q without regard to case, the *)
(* featured flag equals featured; with no filter no event is left out.     *)
C6_ListMatchesFilters ==
    (response.op = "list_events" /\ response.status = 200)
        => LET wanted == Take(EventsWanted(store.event, response.req.q,
                                           response.req.featured, 1),
                              response.req.limit)
           IN  [i \in 1..Len(response.body) |-> response.body[i].id]
                 = [i \in 1..Len(wanted) |-> ObjectIdStr(wanted[i]["_id"])]

(* C7: the diagnostics endpoint answers with a status record whether the   *)
(* handle is absent, listing the collections fails, or storage works; it   *)
(* reports the first 10 collection names at most, and changes no           *)
(* collection.                                                             *)
C7_DiagnosticsFailSoft ==
    [][\A k \in {0, MaxOther}, fails \in BOOLEAN :
          test_database(k, fails)
          => /\ response'.status = 200
             /\ response'.body.database \in
                  {"Connected & Working", "Connected but Error",
                   "Available but not initialized"}
             /\ Len(response'.body.collections) <= 10
             /\ (db = "connected" /\ ~fails)
                  => /\ response'.body.database = "Connected & Working"
                     /\ \A i \in 1..Len(response'.body.collections) :
                           response'.body.collections[i]
                             = list_collection_names(store, k)[i]
             /\ (db = "connected" /\ fails)
                  => response'.body.database = "Connected but Error"
             /\ db = "None"
                  => response'.body.database = "Available but not initialized"
             /\ store' = store]_vars

(* A report cut to 10 names out of more. *)
C7_Witness ==
    /\ response.op = "test"
    /\ Len(response.body.collections) = 10
    /\ Len(list_collection_names(store, response.req.k)) > 10

(* C9: every stored booking has item_type "event" or "service" and an      *)
(* item_id that parses to the identifier of a document now present in the  *)
(* collection of that type, however the steps of seed, create and booking  *)
(* requests interleave.                                                    *)
C9_BookingsReferToItems ==
    \A i \in 1..Len(store.booking) :
        LET b == store.booking[i]
        IN  /\ b.item_type \in {"event", "service"}
            /\ ObjectIdValid(b.item_id)
            /\ ObjectId(b.item_id) \in IdsIn(store[b.item_type])

(* A booking stored after another request inserted a document between its  *)
(* existence check and its insert: the booked item was the latest document *)
(* at the check, and is no longer when the booking gets its identifier.    *)
C9_Witness ==
    /\ Len(store.booking) > 0
    /\ ObjectId(store.booking[1].item_id) # NewObjectId(FirstId)
    /\ store.booking[1]["_id"][12] > ObjectId(store.booking[1].item_id)[12] + 1

(* C10 as claimed: seed requests that overlap between storage calls never  *)
(* leave more than the 4 sample events or the 3 sample services.           *)
C10_NoDuplicateSamples ==
    /\ Len(store.event) <= 4
    /\ Len(store.service) <= 3

(* The times a payload occurs in a collection. *)
Occurrences(docs, payload) ==
    Cardinality({ i \in 1..Len(docs) : Payload(docs[i]) = payload })

(* C10: seed requests that overlap between storage calls can each insert   *)
(* the samples: starting from empty collections, every sample is stored at *)
(* most once per overlapping request (8 events and 6 services for two      *)
(* requests), and a request inserts only samples.                          *)
C10_DuplicatesBoundedByRequests ==
    /\ \A i \in 1..Len(SampleEvents) :
          Occurrences(store.event, SampleEvents[i]) <= Cardinality(Seeders)
    /\ \A i \in 1..Len(SampleServices) :
          Occurrences(store.service, SampleServices[i]) <= Cardinality(Seeders)
    /\ Len(store.event) <= 4 * Cardinality(Seeders)
    /\ Len(store.service) <= 3 * Cardinality(Seeders)

(* Both requests have returned and every sample is stored twice. *)
C10_Witness ==
    /\ \A p \in Seeders : pc[p] = "idle"
    /\ Len(store.event) = 8
    /\ Len(store.service) = 6
    /\ response.op = "seed"

=============================================================================
